---- MODULE Spec2Model ----
(***************************************************************************)
(* Model of the two Firestore document accessors of go-utils-firestore:    *)
(* dao.DAO (timestamps, wrapped errors) and cruds.CRUDS (sentinel errors). *)
(* The Firestore client is modelled by what its calls return and store.    *)
(***************************************************************************)
EXTENDS Integers, Sequences, FiniteSets, TLC

VARIABLES
    store,   \* the collection at c.path: identity key -> stored fields
    clock,   \* the wall clock read by time.Now()
    calls,   \* DAO calls in flight, one slot per concurrent caller
    ret,     \* what the last finished call returned, with the backend's answer
    shape,   \* the Go type bound to Document: "struct" or "map"
    fresh,   \* per key: the Create whose document nobody has touched since
    wins     \* per key: backend creates that succeeded since the last delete

vars == <<store, clock, calls, ret, shape, fresh, wins>>

\* ------------------------------------------------------------------ bounds

MaxClock == 1
MaxCalls == 1
MaxQueries == 2
MaxTokenLen == 2

\* ------------------------------------------------------------------ values

\* The identity keys of the collection, in the backend's result order (by name).
KeyOrder == <<"k1", "k2", "k3">>

\* The keys Create, Read, Update and Delete are called with.
CrudKeys == {"k1", "k2"}

\* The keys DAO.Create is called with.
StampKeys == {"k1"}

Shapes == {"struct", "map"}

IntV(n) == [type |-> "int", v |-> n]

StrV == [type |-> "string", v |-> 0]

TimeV(t) == [type |-> "time", v |-> t]

\* The Document values callers pass: struct {Data int} or map[string]any{"data": n}.
Documents(sh) == IF sh = "struct" THEN {[data |-> 1], [data |-> 2]}
                                  ELSE {[data |-> IntV(1)], [data |-> IntV(2)]}

\* c.empty: the zero value of Document (a zero struct, a nil map).
Empty(sh) == IF sh = "struct" THEN [data |-> 0] ELSE <<>>

\* Serialization of a Document by DocumentRef.Create.
ToFields(sh, doc) == IF sh = "struct" THEN [f \in DOMAIN doc |-> IntV(doc[f])] ELSE doc

\* snapshot.DataTo(&d): a struct takes its own fields, ignores the others and
\* rejects a value of the wrong type; a map takes every stored field.
DataTo(sh, fields) ==
    IF sh = "struct"
    THEN IF "data" \in DOMAIN fields /\ fields["data"].type # "int"
         THEN [err |-> "type mismatch", doc |-> Empty(sh)]
         ELSE [err |-> "", doc |-> [data |-> IF "data" \in DOMAIN fields
                                             THEN fields["data"].v ELSE 0]]
    ELSE [err |-> "", doc |-> fields]

\* ------------------------------------------------------------------ errors

NilErr == [code |-> "nil", cause |-> <<>>]

\* An error of the backend, returned as it came.
Raw(status) == [code |-> status, cause |-> <<>>]

\* e.Wrap(cause, err)
Wrap(cause, err) == [code |-> err, cause |-> cause]

ErrDocumentNotFound == [code |-> "ErrDocumentNotFound", cause |-> <<>>]

ErrDocumentAlreadyExists == [code |-> "ErrDocumentAlreadyExists", cause |-> <<>>]

ErrDocumentSkipped == [code |-> "ErrDocumentSkipped", cause |-> <<>>]

ErrQueryNotSupported == [code |-> "ErrQueryNotSupported", cause |-> <<>>]

\* Transport and permission failures the backend can answer any call with.
Faults == {"Unavailable"}

\* What the backend can answer where its data says `status`.
Outcomes(status) == {status} \cup Faults

\* ------------------------------------------------------------------ backend

Put(s, id, fields) == [k \in DOMAIN s \cup {id} |-> IF k = id THEN fields ELSE s[k]]

Remove(s, id) == [k \in DOMAIN s \ {id} |-> s[k]]

\* The stored document at id as a set: {} or {fields}.
At(s, id) == IF id \in DOMAIN s THEN {s[id]} ELSE {}

\* DocumentRef.Create: create-if-absent.
DocCreateStatus(s, id) == IF id \in DOMAIN s THEN "AlreadyExists" ELSE "OK"

DocCreate(s, id, fields, st) == IF st = "OK" THEN Put(s, id, fields) ELSE s

Paths(fus) == {fus[i].Path : i \in 1..Len(fus)}

\* DocumentRef.Update: the client refuses an empty or repeating path list, the
\* backend refuses a missing document.
DocUpdateStatus(s, id, fus) ==
    IF Len(fus) = 0 \/ Cardinality(Paths(fus)) # Len(fus) THEN "InvalidArgument"
    ELSE IF id \notin DOMAIN s THEN "NotFound"
    ELSE "OK"

ApplyUpdates(fields, fus) ==
    [f \in DOMAIN fields \cup Paths(fus) |->
        IF f \in Paths(fus)
        THEN (CHOOSE u \in {fus[i] : i \in 1..Len(fus)} : u.Path = f).Value
        ELSE fields[f]]

DocUpdate(s, id, fus, st) == IF st = "OK" THEN Put(s, id, ApplyUpdates(s[id], fus)) ELSE s

\* DocumentRef.Delete: unconditional.
DocDelete(s, id, st) == IF st = "OK" THEN Remove(s, id) ELSE s

NilSnapshot == [isNil |-> TRUE, exists |-> FALSE, fields |-> <<>>]

\* DocumentRef.Get: (snapshot, nil) for a stored document, (a snapshot that does
\* not exist, NotFound) for a missing one, (nil, err) for every other failure.
DocGetStatus(s, id) == IF id \in DOMAIN s THEN "OK" ELSE "NotFound"

DocGet(s, id, st) ==
    IF st = "OK" THEN [snapshot |-> [isNil |-> FALSE, exists |-> TRUE, fields |-> s[id]], err |-> st]
    ELSE IF st = "NotFound"
         THEN [snapshot |-> [isNil |-> FALSE, exists |-> FALSE, fields |-> <<>>], err |-> st]
         ELSE [snapshot |-> NilSnapshot, err |-> st]

\* ------------------------------------------------------------------ calls

Idle == [pc |-> "idle"]

Procs == 1..MaxCalls

\* The slot a new DAO.Create takes: the lowest free one.
FreeSlot(p) == calls[p] = Idle /\ \A q \in Procs : q < p => calls[q] # Idle

NoRet == [op |-> "none"]

Return(doc, err) == [kind |-> "return", doc |-> doc, err |-> err]

\* A nil pointer dereference: the call does not return.
Panic == [kind |-> "panic", doc |-> <<>>, err |-> NilErr]

Init ==
    /\ store = <<>>
    /\ clock = 0
    /\ calls = [p \in Procs |-> Idle]
    /\ ret = NoRet
    /\ shape \in Shapes
    /\ fresh = [k \in CrudKeys |-> {}]
    /\ wins = [k \in CrudKeys |-> 0]

\* The caller takes what the call returned; the next call's result replaces it.
Taken ==
    /\ ret # NoRet
    /\ ret' = NoRet
    /\ UNCHANGED <<store, clock, calls, shape, fresh, wins>>

Tick ==
    /\ ret = NoRet
    /\ clock < MaxClock
    /\ clock' = clock + 1
    /\ UNCHANGED <<store, calls, ret, shape, fresh, wins>>

\* ------------------------------------------------------------------ dao.DAO.Create

\* DAO.Create without its AlreadyExists case.
DAO_CreateError_Unnormalized(id, st) == Raw(st)

\* The error DAO.Create returns when the backend create fails.
DAO_CreateError(id, st) ==
    IF st = "AlreadyExists"
    THEN Wrap(<<"document", id, "already exists">>, "ErrConflict")
    ELSE Raw(st)

\* A follow-up that sets updated alone.
DAO_CreateStamps_OnlyUpdated(now) == << [Path |-> "updated", Value |-> TimeV(now)] >>

\* The follow-up instructions of DAO.Create: created and updated, both `now`.
DAO_CreateStamps(now) ==
    << [Path |-> "created", Value |-> TimeV(now)],
       [Path |-> "updated", Value |-> TimeV(now)] >>

CreateRet(variant, id, doc, now, st, step, err, n) ==
    [op |-> "Create", variant |-> variant, id |-> id, doc |-> doc, now |-> now,
     status |-> st, step |-> step, kind |-> "return", err |-> err, ncalls |-> n,
     before |-> At(store, id), after |-> At(store', id)]

\* now := time.Now(); d.Create(ctx, document); the error return. On success the
\* call goes on to its follow-up, which is a later step.
DAO_CreateInsert(p, id, doc, st) ==
    /\ ret = NoRet
    /\ FreeSlot(p)
    /\ st \in Outcomes(DocCreateStatus(store, id))
    /\ store' = DocCreate(store, id, ToFields(shape, doc), st)
    /\ IF st = "OK"
       THEN /\ calls' = [calls EXCEPT ![p] =
                            [pc |-> "stamp", id |-> id, doc |-> doc, now |-> clock]]
            /\ fresh' = [fresh EXCEPT ![id] =
                            {[owner |-> p, variant |-> "DAO", doc |-> doc,
                              now |-> clock, done |-> FALSE]}]
            /\ wins' = [wins EXCEPT ![id] = @ + 1]
            /\ UNCHANGED ret
       ELSE /\ ret' = CreateRet("DAO", id, doc, clock, st, "create", DAO_CreateError(id, st), 1)
            /\ UNCHANGED <<calls, fresh, wins>>
    /\ UNCHANGED <<clock, shape>>

\* d.Update(ctx, fus) and the return
DAO_CreateStamp(p, st) ==
    LET c == calls[p]
        fus == DAO_CreateStamps(c.now)
        mine == {f \in fresh[c.id] : f.owner = p /\ f.variant = "DAO" /\ ~f.done}
    IN
    /\ ret = NoRet
    /\ c.pc = "stamp"
    /\ st \in Outcomes(DocUpdateStatus(store, c.id, fus))
    /\ store' = DocUpdate(store, c.id, fus, st)
    /\ calls' = [calls EXCEPT ![p] = Idle]
    /\ ret' = CreateRet("DAO", c.id, c.doc, c.now, st, "stamp",
                        IF st = "OK" THEN NilErr ELSE Raw(st), 2)
    /\ fresh' = [fresh EXCEPT ![c.id] =
                    IF st = "OK" THEN {[f EXCEPT !.done = TRUE] : f \in mine}
                    ELSE @ \ mine]
    /\ UNCHANGED <<clock, shape, wins>>

\* ------------------------------------------------------------------ cruds.CRUDS.Create

CRUDS_CreateError(st) ==
    IF st = "OK" THEN NilErr
    ELSE IF st = "AlreadyExists" THEN ErrDocumentAlreadyExists
    ELSE Raw(st)

CRUDS_Create(id, doc, st) ==
    /\ ret = NoRet
    /\ st \in Outcomes(DocCreateStatus(store, id))
    /\ store' = DocCreate(store, id, ToFields(shape, doc), st)
    /\ ret' = CreateRet("CRUDS", id, doc, 0, st, "create", CRUDS_CreateError(st), 1)
    /\ fresh' = IF st = "OK"
                THEN [fresh EXCEPT ![id] = {[owner |-> 0, variant |-> "CRUDS", doc |-> doc,
                                             now |-> 0, done |-> TRUE]}]
                ELSE fresh
    /\ wins' = IF st = "OK" THEN [wins EXCEPT ![id] = @ + 1] ELSE wins
    /\ UNCHANGED <<clock, calls, shape>>

\* ------------------------------------------------------------------ Read

\* DAO.Read returning c.empty where it should return d.
DAO_ReadResult_DropsDoc(sh, id, get) ==
    IF get.err # "OK"
    THEN IF get.snapshot.isNil THEN Panic
         ELSE IF ~get.snapshot.exists
              THEN Return(Empty(sh), Wrap(<<"ID", id>>, "ErrNotFound"))
              ELSE Return(Empty(sh), Raw(get.err))
    ELSE Return(Empty(sh), NilErr)

\* DAO.Read without its not-found case.
DAO_ReadResult_NoNotFound(sh, id, get) ==
    IF get.err # "OK"
    THEN IF get.snapshot.isNil THEN Panic ELSE Return(Empty(sh), Raw(get.err))
    ELSE LET d == DataTo(sh, get.snapshot.fields) IN
         IF d.err # ""
         THEN Return(Empty(sh), Wrap(<<"firestore serialization failed", d.err>>, "ErrCorrupt"))
         ELSE Return(d.doc, NilErr)

\* DAO.Read after Get: snapshot.Exists() is called on whatever Get gave back.
DAO_ReadResult(sh, id, get) ==
    IF get.err # "OK"
    THEN IF get.snapshot.isNil THEN Panic
         ELSE IF ~get.snapshot.exists
              THEN Return(Empty(sh), Wrap(<<"ID", id>>, "ErrNotFound"))
              ELSE Return(Empty(sh), Raw(get.err))
    ELSE LET d == DataTo(sh, get.snapshot.fields) IN
         IF d.err # ""
         THEN Return(Empty(sh), Wrap(<<"firestore serialization failed", d.err>>, "ErrCorrupt"))
         ELSE Return(d.doc, NilErr)

CRUDS_ReadResult(sh, id, get) ==
    IF get.err # "OK"
    THEN IF get.snapshot.isNil THEN Panic
         ELSE IF ~get.snapshot.exists
              THEN Return(Empty(sh), ErrDocumentNotFound)
              ELSE Return(Empty(sh), Raw(get.err))
    ELSE LET d == DataTo(sh, get.snapshot.fields) IN
         IF d.err # ""
         THEN Return(Empty(sh), Raw(d.err))
         ELSE Return(d.doc, NilErr)

ReadRet(variant, id, st, r) ==
    [op |-> "Read", variant |-> variant, id |-> id, status |-> st, kind |-> r.kind,
     doc |-> r.doc, err |-> r.err, before |-> At(store, id), fresh |-> fresh[id],
     others |-> DOMAIN store \ {id}]

DAO_Read(id, st) ==
    /\ ret = NoRet
    /\ st \in Outcomes(DocGetStatus(store, id))
    /\ ret' = ReadRet("DAO", id, st, DAO_ReadResult(shape, id, DocGet(store, id, st)))
    /\ UNCHANGED <<store, clock, calls, shape, fresh, wins>>

CRUDS_Read(id, st) ==
    /\ ret = NoRet
    /\ st \in Outcomes(DocGetStatus(store, id))
    /\ ret' = ReadRet("CRUDS", id, st, CRUDS_ReadResult(shape, id, DocGet(store, id, st)))
    /\ UNCHANGED <<store, clock, calls, shape, fresh, wins>>

\* ------------------------------------------------------------------ Update

\* The t.Update mappings callers pass to DAO.Update (nil and empty alike).
Updates == { <<>>, [data |-> IntV(2)] }

\* The []firestore.Update lists callers pass to CRUDS.Update.
UpdateLists == { <<>>, <<[Path |-> "data", Value |-> IntV(2)]>> }

RECURSIVE fromUpdate(_)
\* One firestore.Update per entry of the mapping.
fromUpdate(input) ==
    IF DOMAIN input = {} THEN <<>>
    ELSE LET key == CHOOSE k \in DOMAIN input : TRUE
             rest == [k \in DOMAIN input \ {key} |-> input[k]]
         IN <<[Path |-> key, Value |-> input[key]]>> \o fromUpdate(rest)

\* DAO.Update without the appended instruction.
DAO_UpdateInstructions_NoStamp(update, now) == fromUpdate(update)

\* fus of DAO.Update: the translated mapping, then updated = time.Now().
DAO_UpdateInstructions(update, now) ==
    Append(fromUpdate(update), [Path |-> "updated", Value |-> TimeV(now)])

UpdateRet(variant, id, update, fus, now, st) ==
    [op |-> "Update", variant |-> variant, id |-> id, update |-> update, fus |-> fus,
     now |-> now, status |-> st, kind |-> "return",
     err |-> IF st = "OK" THEN NilErr ELSE Raw(st), ncalls |-> 1,
     before |-> At(store, id), after |-> At(store', id)]

\* fromUpdate, time.Now() and the one backend call of DAO.Update.
DAO_Update(id, update, st) ==
    LET fus == DAO_UpdateInstructions(update, clock) IN
    /\ ret = NoRet
    /\ st \in Outcomes(DocUpdateStatus(store, id, fus))
    /\ store' = DocUpdate(store, id, fus, st)
    /\ ret' = UpdateRet("DAO", id, update, fus, clock, st)
    /\ fresh' = IF st = "OK" THEN [fresh EXCEPT ![id] = {}] ELSE fresh
    /\ UNCHANGED <<clock, calls, shape, wins>>

CRUDS_Update(id, updates, st) ==
    /\ ret = NoRet
    /\ st \in Outcomes(DocUpdateStatus(store, id, updates))
    /\ store' = DocUpdate(store, id, updates, st)
    /\ ret' = UpdateRet("CRUDS", id, updates, updates, 0, st)
    /\ fresh' = IF st = "OK" THEN [fresh EXCEPT ![id] = {}] ELSE fresh
    /\ UNCHANGED <<clock, calls, shape, wins>>

\* ------------------------------------------------------------------ Delete

DeleteRet(variant, id, st) ==
    [op |-> "Delete", variant |-> variant, id |-> id, status |-> st, kind |-> "return",
     err |-> IF st = "OK" THEN NilErr ELSE Raw(st),
     before |-> At(store, id), after |-> At(store', id)]

Delete(variant, id, st) ==
    /\ ret = NoRet
    /\ st \in Outcomes("OK")
    /\ store' = DocDelete(store, id, st)
    /\ ret' = DeleteRet(variant, id, st)
    /\ fresh' = IF st = "OK" THEN [fresh EXCEPT ![id] = {}] ELSE fresh
    /\ wins' = IF st = "OK" THEN [wins EXCEPT ![id] = 0] ELSE wins
    /\ UNCHANGED <<clock, calls, shape>>

DAO_Delete(id, st) == Delete("DAO", id, st)

CRUDS_Delete(id, st) == Delete("CRUDS", id, st)

\* ------------------------------------------------------------------ fro

\* Operator tokens are strings of character codes.
Chars == {69, 71, 76, 78, 81, 84, 101, 103, 108, 110, 113, 116, 88, 61}

RECURSIVE SeqsUpTo(_, _)
\* The sequences over S of length at most n.
SeqsUpTo(S, n) ==
    IF n = 0 THEN {<<>>}
    ELSE LET shorter == SeqsUpTo(S, n - 1) IN
         shorter \cup {Append(t, c) : t \in shorter, c \in S}

\* unicode.ToUpper on one code: a lower-case ASCII letter loses 32.
UpperChar(c) == IF c >= 97 /\ c <= 122 THEN c - 32 ELSE c

RECURSIVE ToUpper(_)
\* strings.ToUpper on the codes of a token
ToUpper(input) ==
    IF input = <<>> THEN <<>>
    ELSE <<UpperChar(Head(input))>> \o ToUpper(Tail(input))

\* fro without strings.ToUpper.
fro_CaseSensitive(input) ==
    CASE input = <<69, 81>> -> "=="
      [] input = <<78, 69>> -> "!="
      [] input = <<76, 84>> -> "<"
      [] input = <<71, 84>> -> ">"
      [] input = <<76, 69>> -> "<="
      [] input = <<71, 69>> -> ">="
      [] OTHER -> "UNKNOWN"

\* fro = Firestore Relational Operator
fro(input) ==
    LET up == ToUpper(input) IN
    CASE up = <<69, 81>> -> "=="
      [] up = <<78, 69>> -> "!="
      [] up = <<76, 84>> -> "<"
      [] up = <<71, 84>> -> ">"
      [] up = <<76, 69>> -> "<="
      [] up = <<71, 69>> -> ">="
      [] OTHER -> "UNKNOWN"

\* ------------------------------------------------------------------ Search

NativeOps == {"==", "!=", "<", ">", "<=", ">="}

\* Whether stored fields pass one Where(path, op, value) filter.
Matches(fields, f) ==
    /\ f.Path \in DOMAIN fields
    /\ LET x == fields[f.Path] IN
       IF x.type # f.Value.type THEN f.Operator = "!="
       ELSE CASE f.Operator = "==" -> x.v = f.Value.v
              [] f.Operator = "!=" -> x.v # f.Value.v
              [] f.Operator = "<" -> x.v < f.Value.v
              [] f.Operator = ">" -> x.v > f.Value.v
              [] f.Operator = "<=" -> x.v <= f.Value.v
              [] f.Operator = ">=" -> x.v >= f.Value.v
              [] OTHER -> FALSE

Ops(filters) == {filters[i].Operator : i \in 1..Len(filters)}

\* Documents(ctx).GetAll() of a query: an operator the client does not know fails
\* the query when it runs, and so does "==" combined with an inequality.
QueryStatus(filters) ==
    IF ~(Ops(filters) \subseteq NativeOps) THEN "InvalidOperator"
    ELSE IF "==" \in Ops(filters) /\ Ops(filters) \ {"=="} # {} THEN "FailedPrecondition"
    ELSE "OK"

\* The snapshots GetAll gives: the stored fields of the matching documents, by name.
QueryGetAll(s, filters, st) ==
    IF st # "OK" THEN <<>>
    ELSE LET hit(k) == k \in DOMAIN s /\ \A i \in 1..Len(filters) : Matches(s[k], filters[i])
             ks == SelectSeq(KeyOrder, hit)
         IN [i \in 1..Len(ks) |-> s[ks[i]]]

\* The t.Query lists callers pass to DAO.Search.
QueryTerms == {[Key |-> "data", Operator |-> op, Value |-> IntV(1)] :
                  op \in {<<69, 81>>, <<103, 116>>, <<88, 88>>}}

\* The Query lists callers pass to CRUDS.Search.
PlainTerms == {[Path |-> "data", Operator |-> op, Value |-> IntV(1)] :
                  op \in {"==", ">", "UNKNOWN"}}

\* The Where chain of DAO.Search: each operator goes through fro.
DAO_Filters(queries) ==
    [i \in 1..Len(queries) |->
        [Path |-> queries[i].Key, Operator |-> fro(queries[i].Operator),
         Value |-> queries[i].Value]]

\* DAO.Search without its FailedPrecondition case.
DAO_QueryError_Raw(queries, st) == Raw(st)

\* The error of DAO.Search when GetAll fails.
DAO_QueryError(queries, st) ==
    IF Len(queries) # 0 /\ st = "FailedPrecondition"
    THEN Wrap(<<"query not supported: combining '==' with '!= <, <=, >, >='">>, "ErrBadRequest")
    ELSE Raw(st)

RECURSIVE DAO_Loop(_, _, _, _, _)
\* The loop of DAO.Search over the snapshots: a corrupt one is logged and skipped.
DAO_Loop(sh, snapshots, i, ds, log) ==
    IF i > Len(snapshots) THEN [docs |-> ds, err |-> NilErr, log |-> log]
    ELSE LET d == DataTo(sh, snapshots[i]) IN
         IF d.err # ""
         THEN DAO_Loop(sh, snapshots, i + 1, ds,
                       Append(log, Wrap(<<"firestore serialization failed", d.err>>, "ErrCorrupt")))
         ELSE DAO_Loop(sh, snapshots, i + 1, Append(ds, d.doc), log)

DAO_SearchResult(sh, queries, st, snapshots) ==
    IF st # "OK" THEN [docs |-> <<>>, err |-> DAO_QueryError(queries, st), log |-> <<>>]
    ELSE DAO_Loop(sh, snapshots, 1, <<>>, <<>>)

\* The error of CRUDS.Search when GetAll fails.
CRUDS_QueryError(queries, st) ==
    IF Len(queries) # 0 /\ st = "FailedPrecondition" THEN ErrQueryNotSupported ELSE Raw(st)

RECURSIVE CRUDS_Loop(_, _, _, _, _)
\* The loop of CRUDS.Search: err is assigned by every DataTo, and set to
\* ErrDocumentSkipped where DataTo failed.
CRUDS_Loop(sh, snapshots, i, ds, err) ==
    IF i > Len(snapshots) THEN [docs |-> ds, err |-> err, log |-> <<>>]
    ELSE LET d == DataTo(sh, snapshots[i]) IN
         IF d.err # ""
         THEN CRUDS_Loop(sh, snapshots, i + 1, ds, ErrDocumentSkipped)
         ELSE CRUDS_Loop(sh, snapshots, i + 1, Append(ds, d.doc), NilErr)

CRUDS_SearchResult(sh, queries, st, snapshots) ==
    IF st # "OK" THEN [docs |-> <<>>, err |-> CRUDS_QueryError(queries, st), log |-> <<>>]
    ELSE CRUDS_Loop(sh, snapshots, 1, <<>>, NilErr)

SearchRet(variant, queries, filters, st, snapshots, r) ==
    [op |-> "Search", variant |-> variant, queries |-> queries, filters |-> filters,
     status |-> st, kind |-> "return", snapshots |-> snapshots,
     docs |-> r.docs, err |-> r.err, log |-> r.log, ncalls |-> 1]

DAO_Search(queries, st) ==
    LET filters == DAO_Filters(queries)
        snapshots == QueryGetAll(store, filters, st)
    IN
    /\ ret = NoRet
    /\ st \in Outcomes(QueryStatus(filters))
    /\ ret' = SearchRet("DAO", queries, filters, st, snapshots,
                        DAO_SearchResult(shape, queries, st, snapshots))
    /\ UNCHANGED <<store, clock, calls, shape, fresh, wins>>

CRUDS_Search(queries, st) ==
    LET snapshots == QueryGetAll(store, queries, st) IN
    /\ ret = NoRet
    /\ st \in Outcomes(QueryStatus(queries))
    /\ ret' = SearchRet("CRUDS", queries, queries, st, snapshots,
                        CRUDS_SearchResult(shape, queries, st, snapshots))
    /\ UNCHANGED <<store, clock, calls, shape, fresh, wins>>

\* The collections Search runs over: each key missing, or holding an integer or
\* (after an update that wrote a string) a value the struct cannot take.
SearchFields == {[data |-> IntV(1)], [data |-> IntV(2)], [data |-> StrV]}

SearchKeys == {KeyOrder[i] : i \in 1..Len(KeyOrder)}

SearchStores == UNION {[ks -> SearchFields] : ks \in SUBSET SearchKeys}

InitSearch ==
    /\ store \in SearchStores
    /\ clock = 0
    /\ calls = [p \in Procs |-> Idle]
    /\ ret = NoRet
    /\ shape \in Shapes
    /\ fresh = [k \in CrudKeys |-> {}]
    /\ wins = [k \in CrudKeys |-> 0]

SearchStatuses == {"OK", "FailedPrecondition", "InvalidOperator"} \cup Faults

NextSearch ==
    \/ Taken
    \/ /\ ret = NoRet
       /\ \E q \in SeqsUpTo(QueryTerms, MaxQueries), st \in SearchStatuses : DAO_Search(q, st)
    \/ /\ ret = NoRet
       /\ \E q \in SeqsUpTo(PlainTerms, MaxQueries), st \in SearchStatuses : CRUDS_Search(q, st)

SpecSearch == InitSearch /\ [][NextSearch]_vars

\* DAO.Search with one predicate, over every token.
NextFro ==
    \/ Taken
    \/ /\ ret = NoRet
       /\ \E tok \in SeqsUpTo(Chars, MaxTokenLen), st \in SearchStatuses :
             DAO_Search(<<[Key |-> "data", Operator |-> tok, Value |-> IntV(1)]>>, st)

SpecFro == InitSearch /\ [][NextFro]_vars

\* ------------------------------------------------------------------ specification

Statuses == {"OK", "AlreadyExists", "NotFound", "InvalidArgument"} \cup Faults

Next ==
    \/ Taken
    \/ Tick
    \/ \E p \in Procs, id \in StampKeys, doc \in Documents(shape), st \in Statuses :
          DAO_CreateInsert(p, id, doc, st)
    \/ \E p \in Procs, st \in Statuses : DAO_CreateStamp(p, st)
    \/ \E id \in CrudKeys, doc \in Documents(shape), st \in Statuses : CRUDS_Create(id, doc, st)
    \/ \E id \in CrudKeys, st \in Statuses : DAO_Read(id, st)
    \/ \E id \in CrudKeys, st \in Statuses : CRUDS_Read(id, st)
    \/ \E id \in CrudKeys, u \in Updates, st \in Statuses : DAO_Update(id, u, st)
    \/ \E id \in CrudKeys, u \in UpdateLists, st \in Statuses : CRUDS_Update(id, u, st)
    \/ \E id \in CrudKeys, st \in Statuses : DAO_Delete(id, st)
    \/ \E id \in CrudKeys, st \in Statuses : CRUDS_Delete(id, st)

Spec == Init /\ [][Next]_vars

\* ------------------------------------------------------------------ claims

CreateOnStored == ret.op = "Create" /\ ret.step = "create" /\ ret.before # {}

Conflict(variant, id) ==
    IF variant = "DAO"
    THEN [code |-> "ErrConflict", cause |-> <<"document", id, "already exists">>]
    ELSE [code |-> "ErrDocumentAlreadyExists", cause |-> <<>>]

\* C1: a Create whose backend create finds a document stored at the key does not
\* succeed, makes that one backend call and no follow-up, leaves the stored
\* document as it was, and returns Conflict where the backend answered
\* AlreadyExists; between two deletes of a key at most one create of it succeeds.
C1_CreateIfAbsent ==
    /\ CreateOnStored =>
          /\ ret.kind = "return"
          /\ ret.err # NilErr
          /\ ret.ncalls = 1
          /\ ret.after = ret.before
          /\ ret.status = "AlreadyExists" => ret.err = Conflict(ret.variant, ret.id)
    /\ \A k \in CrudKeys : wins[k] <= 1 /\ (wins[k] = 1 => k \in DOMAIN store)

\* C1 witness: DAO.Create of another document on a stored key returned Conflict.
C1_Witness ==
    /\ CreateOnStored
    /\ ret.variant = "DAO"
    /\ ret.status = "AlreadyExists"
    /\ ToFields(shape, ret.doc) \notin ret.before
    /\ wins[ret.id] = 1

ReadOfFresh == ret.op = "Read" /\ ret.status = "OK" /\ \E f \in ret.fresh : f.done

NotFound(variant, id) ==
    IF variant = "DAO"
    THEN [code |-> "ErrNotFound", cause |-> <<"ID", id>>]
    ELSE [code |-> "ErrDocumentNotFound", cause |-> <<>>]

\* C3: Read of a key with no stored document, answered not-found by the backend,
\* returns NotFound and the zero Document, whatever is stored at other keys.
C3_ReadMissing ==
    ret.op = "Read" /\ ret.before = {} /\ ret.status = "NotFound" =>
        /\ ret.kind = "return"
        /\ ret.err = NotFound(ret.variant, ret.id)
        /\ ret.doc = Empty(shape)

\* C3 witness: Read of a missing key returned NotFound while another key is stored.
C3_Witness ==
    /\ ret.op = "Read"
    /\ ret.before = {}
    /\ ret.status = "NotFound"
    /\ ret.others # {}
    /\ ret.variant = "DAO"

\* C4: Read returns a backend failure other than not-found as it came, with the
\* zero Document.
C4_ReadPropagates ==
    ret.op = "Read" /\ ret.status \in Faults =>
        /\ ret.kind = "return"
        /\ ret.err = Raw(ret.status)
        /\ ret.doc = Empty(shape)

EmptyUpdateOnStored ==
    /\ ret.op = "Update"
    /\ ret.variant = "DAO"
    /\ DOMAIN ret.update = {}
    /\ ret.before # {}
    /\ ret.status \notin Faults

StampReturn == ret.op = "Create" /\ ret.variant = "DAO" /\ ret.step = "stamp"

\* C10: DAO.Create is a backend create and then a backend update. While the
\* update is pending the document is stored as created, without created and
\* updated, unless another call changed it. The update sets both to the time
\* taken before the create. Where it fails Create returns its error as it
\* came and the store is left as it was.
C10_TwoStepCreate ==
    /\ \A p \in Procs :
          calls[p].pc = "stamp" /\ (\E f \in fresh[calls[p].id] : f.owner = p /\ ~f.done) =>
              At(store, calls[p].id) = {ToFields(shape, calls[p].doc)}
    /\ StampReturn => ret.ncalls = 2 /\ ret.kind = "return" /\ ret.now <= clock
    /\ StampReturn /\ ret.status = "OK" =>
          /\ ret.err = NilErr
          /\ ret.after # {}
          /\ \A a \in ret.after :
                /\ {"created", "updated"} \subseteq DOMAIN a
                /\ a["created"] = TimeV(ret.now)
                /\ a["updated"] = TimeV(ret.now)
    /\ StampReturn /\ ret.status # "OK" =>
          /\ ret.err = Raw(ret.status)
          /\ ret.after = ret.before

\* C10 witness: the follow-up failed and the created document stays stored
\* without created and updated.
C10_Witness ==
    /\ StampReturn
    /\ ret.status \in Faults
    /\ ret.after = {ToFields(shape, ret.doc)}
    /\ At(store, ret.id) = ret.after

\* The fetched snapshots that do not deserialize into Document.
Corrupt(snapshots) == {i \in 1..Len(snapshots) : DataTo(shape, snapshots[i]).err # ""}

\* The documents of the snapshots that deserialize, in the order fetched.
GoodDocs(snapshots) ==
    LET ok(fields) == DataTo(shape, fields).err = ""
        good == SelectSeq(snapshots, ok)
    IN [i \in 1..Len(good) |-> DataTo(shape, good[i]).doc]

\* The Skipped notices a Search recorded: log entries (DAO), the error (CRUDS).
Notices(r) ==
    IF r.variant = "DAO" THEN Len(r.log)
    ELSE IF r.err = ErrDocumentSkipped THEN 1 ELSE 0

SearchFetched == ret.op = "Search" /\ ret.status = "OK"

\* C5: a Search that fetched one snapshot that does not deserialize, anywhere
\* among those that do, returns the others in order and records one Skipped notice.
C5_SearchPartialFailure ==
    SearchFetched /\ Cardinality(Corrupt(ret.snapshots)) = 1 =>
        /\ ret.kind = "return"
        /\ ret.docs = GoodDocs(ret.snapshots)
        /\ Notices(ret) = 1

BadRequest(variant) ==
    IF variant = "DAO"
    THEN [code |-> "ErrBadRequest",
          cause |-> <<"query not supported: combining '==' with '!= <, <=, >, >='">>]
    ELSE [code |-> "ErrQueryNotSupported", cause |-> <<>>]

MixesEquality(filters) ==
    /\ \E i \in 1..Len(filters) : filters[i].Operator = "=="
    /\ \E i \in 1..Len(filters) : filters[i].Operator \in {"!=", "<", ">", "<=", ">="}
    /\ \A i \in 1..Len(filters) : filters[i].Operator \in NativeOps

\* C6: a Search whose predicates combine equality with an inequality is refused
\* by the backend with FailedPrecondition and returns BadRequest and no
\* documents; any other failure of the query is returned as it came, with no
\* documents.
C6_SearchBadRequest ==
    ret.op = "Search" /\ Len(ret.queries) > 0 =>
        /\ MixesEquality(ret.filters) /\ ret.status \notin Faults =>
              ret.status = "FailedPrecondition"
        /\ ret.status = "FailedPrecondition" =>
              ret.err = BadRequest(ret.variant) /\ ret.docs = <<>> /\ ret.log = <<>>
        /\ ret.status \notin {"OK", "FailedPrecondition"} =>
              ret.err = Raw(ret.status) /\ ret.docs = <<>> /\ ret.log = <<>>

\* C6 witness: DAO.Search with EQ and gt over stored documents returned BadRequest.
C6_Witness ==
    /\ ret.op = "Search"
    /\ ret.variant = "DAO"
    /\ Len(ret.queries) = 2
    /\ ret.status = "FailedPrecondition"
    /\ ret.err.code = "ErrBadRequest"
    /\ DOMAIN store # {}

\* Whether a token is the two letters with codes a and b (upper case), in any case.
IsToken(tok, a, b) == Len(tok) = 2 /\ tok[1] \in {a, a + 32} /\ tok[2] \in {b, b + 32}

\* The native operator the translation table gives a token.
NativeOf(tok) ==
    IF IsToken(tok, 69, 81) THEN "=="
    ELSE IF IsToken(tok, 78, 69) THEN "!="
    ELSE IF IsToken(tok, 76, 84) THEN "<"
    ELSE IF IsToken(tok, 71, 84) THEN ">"
    ELSE IF IsToken(tok, 76, 69) THEN "<="
    ELSE IF IsToken(tok, 71, 69) THEN ">="
    ELSE "UNKNOWN"

\* C8: DAO.Search hands the backend, for each predicate, the native operator of
\* its token (EQ, NE, LT, GT, LE, GE in any letter case) and "UNKNOWN" for every
\* other token; an unknown token is not refused locally: the query is run and
\* the backend's refusal is what Search returns.
C8_OperatorTranslation ==
    ret.op = "Search" /\ ret.variant = "DAO" =>
        /\ Len(ret.filters) = Len(ret.queries)
        /\ \A i \in 1..Len(ret.queries) :
              /\ ret.filters[i].Operator = NativeOf(ret.queries[i].Operator)
              /\ NativeOf(ret.queries[i].Operator) = "UNKNOWN" =>
                    /\ ret.ncalls = 1
                    /\ ret.status \in {"InvalidOperator"} \cup Faults
                    /\ ret.err = Raw(ret.status)

\* C8 witness: the token "gE" went to the backend as ">=".
C8_Witness ==
    /\ ret.op = "Search"
    /\ ret.variant = "DAO"
    /\ Len(ret.queries) = 1
    /\ ret.queries[1].Operator = <<103, 69>>
    /\ ret.filters[1].Operator = ">="
    /\ ret.status = "OK"

\* C9: CRUDS.Search, where the query succeeded, returns ErrDocumentSkipped with
\* the documents that deserialized exactly when some fetched snapshot did not,
\* and nil otherwise.
C9_SkippedReported ==
    SearchFetched /\ ret.variant = "CRUDS" =>
        /\ ret.docs = GoodDocs(ret.snapshots)
        /\ ret.err = IF Corrupt(ret.snapshots) # {} THEN ErrDocumentSkipped ELSE NilErr

====
